---- MODULE Spec2Model ----
(***************************************************************************)
(* Model of app.py (YouTube Summarizer Pro): the identifier extractor,     *)
(* the transcript formatter and the Streamlit script run that chains the   *)
(* metadata fetch, the transcript fetch, the summarizer and the CSV log.   *)
(* Strings are sequences of one-character strings, so that searching,      *)
(* slicing, joining and formatting are computed and not assumed.           *)
(***************************************************************************)
EXTENDS Integers, Sequences, FiniteSets, TLC

VARIABLES
    fn_pc,                \* which pure function has been applied ("input" before)
    fn_url,               \* argument of extract_video_id
    fn_video_id,          \* its return value
    transcript_data,      \* raw timed segments handed to the formatter
    full_transcript,      \* formatter output: flattened text
    formatted_transcript, \* formatter output: display rows
    export_text,          \* transcript export string of the download button
    youtube_link,         \* st.text_input value
    save_to_file,         \* sidebar checkbox
    clock,                \* seconds since the server started
    td_cache,             \* st.cache_data store of extract_transcript_details
    meta_cache,           \* st.cache_data store of extract_video_metadata
    csv_exists,           \* os.path.exists('summaries_history.csv')
    csv_rows,             \* records of summaries_history.csv, in file order
    page,                 \* what the last script run rendered
    script,               \* globals, calls and returns of the last script run
    runs                  \* number of script runs so far

vars == <<fn_pc, fn_url, fn_video_id, transcript_data, full_transcript,
          formatted_transcript, export_text, youtube_link, save_to_file,
          clock, td_cache, meta_cache, csv_exists, csv_rows, page, script, runs>>

fn_vars == <<fn_pc, fn_url, fn_video_id, transcript_data, full_transcript,
             formatted_transcript, export_text>>

app_vars == <<youtube_link, save_to_file, clock, td_cache, meta_cache,
              csv_exists, csv_rows, page, script, runs>>

----------------------------------------------------------------------------
(* Python values *)

PyNone == [py |-> "None"]
PyUndefined == [py |-> "undefined"]
PyStr(s) == [py |-> "str", v |-> s]
PyList(l) == [py |-> "list", v |-> l]
PyDict(d) == [py |-> "dict", v |-> d]
PyTuple2(a, b) == [py |-> "tuple", fst |-> a, snd |-> b]

\* Python truth value of None, a str, a list or a dict
Truthy(x) ==
    CASE x.py = "None" -> FALSE
      [] x.py = "str" -> Len(x.v) > 0
      [] x.py = "list" -> Len(x.v) > 0
      [] x.py = "dict" -> TRUE
      [] OTHER -> TRUE

----------------------------------------------------------------------------
(* Characters *)

Digits == {"0", "1", "2", "3", "4", "5", "6", "7", "8", "9"}
Upper == {"A", "B", "C", "D", "E", "F", "G", "H", "I", "J", "K", "L", "M",
          "N", "O", "P", "Q", "R", "S", "T", "U", "V", "W", "X", "Y", "Z"}
Lower == {"a", "b", "c", "d", "e", "f", "g", "h", "i", "j", "k", "l", "m",
          "n", "o", "p", "q", "r", "s", "t", "u", "v", "w", "x", "y", "z"}

\* the character class [0-9A-Za-z_-]
IdChars == Digits \cup Upper \cup Lower \cup {"_", "-"}

\* the repetition count {11}
IdLen == 11

----------------------------------------------------------------------------
(* extract_video_id: re.search(r'(?:v=|\/)([0-9A-Za-z_-]{11}).*', url) *)

\* ([0-9A-Za-z_-]{11}) matches at position j
IsIdRun(s, j) ==
    /\ j >= 1
    /\ j + IdLen - 1 <= Len(s)
    /\ \A k \in j..(j + IdLen - 1) : s[k] \in IdChars

\* where the group starts when (?:v=|\/) matches at position i, 0 when it does not
GroupStartOnlyV(s, i) ==
    IF i + 1 <= Len(s) /\ s[i] = "v" /\ s[i + 1] = "="
    THEN i + 2
    ELSE 0

GroupStart(s, i) ==
    IF i + 1 <= Len(s) /\ s[i] = "v" /\ s[i + 1] = "="
    THEN i + 2
    ELSE IF s[i] = "/" THEN i + 1 ELSE 0

\* the whole pattern matches starting at position i (the trailing .* always does)
MatchesAt(s, i) ==
    /\ GroupStart(s, i) # 0
    /\ IsIdRun(s, GroupStart(s, i))

\* the scan of re.search from position i on: the first position where the
\* pattern matches, 0 when there is none
RECURSIVE search_from(_, _)
search_from(s, i) ==
    IF i > Len(s)
    THEN 0
    ELSE IF MatchesAt(s, i) THEN i ELSE search_from(s, i + 1)

\* re.search(pattern, s): the leftmost match
re_search(s) == search_from(s, 1)

\* match.group(1)
group1(s, i) == SubSeq(s, GroupStart(s, i), GroupStart(s, i) + IdLen - 1)

extract_video_id(youtube_url) ==
    LET video_id_match == re_search(youtube_url)
    IN  IF video_id_match # 0
        THEN PyStr(group1(youtube_url, video_id_match))
        ELSE PyNone

----------------------------------------------------------------------------
(* URL inputs *)

SchemeHttps == <<"h", "t", "t", "p", "s", ":", "/", "/">>
SchemeHttp == <<"h", "t", "t", "p", ":", "/", "/">>
Schemes == {SchemeHttps, SchemeHttp, <<>>}

HostWww == <<"w", "w", "w", ".", "y", "o", "u", "t", "u", "b", "e", ".", "c", "o", "m">>
HostBare == <<"y", "o", "u", "t", "u", "b", "e", ".", "c", "o", "m">>
HostMobile == <<"m", ".", "y", "o", "u", "t", "u", "b", "e", ".", "c", "o", "m">>
HostNoCookie == <<"y", "o", "u", "t", "u", "b", "e", "-", "n", "o", "c", "o", "o", "k", "i", "e", ".", "c", "o", "m">>
HostOther == <<"e", "x", ".", "i", "o">>
WatchHosts == {HostWww, HostBare, HostMobile, HostNoCookie, HostOther}

HostShort == <<"y", "o", "u", "t", "u", ".", "b", "e">>
HostShortWww == <<"w", "w", "w", ".", "y", "o", "u", "t", "u", ".", "b", "e">>
ShortHosts == {HostShort, HostShortWww}

\* path text standing before watch?v=
PathRoot == <<"/">>
PathEmbedVideo == <<"/", "e", "m", "b", "e", "d", "_", "v", "i", "d", "e", "o", "/">>
PathShort == <<"/", "t", "v", "/">>
WatchPaths == {PathRoot, PathEmbedVideo, PathShort}

WatchV == <<"w", "a", "t", "c", "h", "?", "v", "=">>

IdA == <<"A", "B", "C", "D", "E", "F", "G", "H", "I", "J", "K">>
IdB == <<"d", "Q", "w", "4", "w", "9", "W", "g", "X", "c", "Q">>
IdC == <<"-", "_", "0", "a", "Z", "9", "-", "_", "x", "Y", "1">>
VideoIds == {IdA, IdB, IdC}

AmpExtra == <<"&", "e", "x", "t", "r", "a", "=", "1">>
AmpList == <<"&", "l", "i", "s", "t", "=", "P", "L", "0", "1", "2", "3", "4", "5", "6", "7", "8", "9", "a", "b">>
WatchSuffixes == {AmpExtra, AmpExtra \o AmpList}

QueryT == <<"?", "t", "=", "3", "0">>
QuerySi == <<"?", "s", "i", "=", "a", "b", "c", "d", "e", "f", "g", "h", "i", "j", "k", "l", "&", "t", "=", "3", "0">>
QueryV == <<"?", "t", "=", "3", "0", "&", "v", "=", "Z", "Z", "Z", "Z", "Z", "Z", "Z", "Z", "Z", "Z", "Z">>
ShortQueries == {QueryT, QuerySi, QueryV}

\* .../watch?v=<id>&extra=1
WatchUrl(scheme, host, path, id, suffix) ==
    scheme \o host \o path \o WatchV \o id \o suffix

\* short-link form .../<id>?t=30
ShortUrl(scheme, host, id, query) ==
    scheme \o host \o <<"/">> \o id \o query

WatchUrls ==
    { WatchUrl(sc, h, p, id, sf) :
        sc \in Schemes, h \in WatchHosts, p \in WatchPaths, id \in VideoIds,
        sf \in WatchSuffixes }

ShortUrls ==
    { ShortUrl(sc, h, id, q) :
        sc \in Schemes, h \in ShortHosts, id \in VideoIds, q \in ShortQueries }

\* strings without an 11-character run of identifier characters, and
\* strings that have such a run but no v= or / before it
UrlEmpty == <<>>
UrlWord == <<"h", "e", "l", "l", "o">>
UrlShortId == SchemeHttps \o HostShort \o <<"/", "a", "b", "c">> \o QueryT
UrlWatchShortId == SchemeHttps \o HostWww \o PathRoot \o WatchV \o <<"a", "b", "c">>
UrlChannel == SchemeHttps \o HostWww \o <<"/", "@", "s", "o", "m", "e", "/", "v", "i", "d", "e", "o", "s">>
UrlBareId == IdA
OddUrls == {UrlEmpty, UrlWord, UrlShortId, UrlWatchShortId, UrlChannel, UrlBareId}

ExtractorInputs == WatchUrls \cup ShortUrls \cup OddUrls

\* the links typed into the page
UrlWatchA == WatchUrl(SchemeHttps, HostWww, PathRoot, IdA, AmpExtra)
UrlShortA == ShortUrl(SchemeHttps, HostShort, IdA, QueryT)
AppUrls == {UrlEmpty, UrlWord, UrlWatchA, UrlShortA}

\* st.cache_data around extract_video_id: the function is deterministic, so
\* a stored entry is the value a call returns
video_id_memo == [u \in AppUrls |-> extract_video_id(u)]

cached_extract_video_id(youtube_url) == video_id_memo[youtube_url]

\* the arguments extract_video_metadata can be called with
MetaKeys == { video_id_memo[u].v : u \in {w \in AppUrls : Truthy(video_id_memo[w])} }

\* the string holds 11 consecutive identifier characters somewhere
HasIdShapedRun(s) == \E j \in 1..Len(s) : IsIdRun(s, j)

----------------------------------------------------------------------------
(* Transcript formatter: the loop and the join of extract_transcript_details, *)
(* and the export expression of the transcript download button.               *)

DigitSeq == <<"0", "1", "2", "3", "4", "5", "6", "7", "8", "9">>

\* str(n) for a natural number
RECURSIVE ToDec(_)
ToDec(n) ==
    IF n < 10
    THEN <<DigitSeq[n + 1]>>
    ELSE ToDec(n \div 10) \o <<DigitSeq[(n % 10) + 1]>>

\* f"{n:02d}": at least two digits, zero-filled
Fmt02d(n) ==
    IF n < 10 THEN <<"0">> \o ToDec(n) ELSE ToDec(n)

\* int(item['start']): start is held in tenths of a second
PyInt(start) == start \div 10

\* f"{minutes:02d}:{seconds:02d}"
timestamp_of(item) ==
    LET start_time == PyInt(item.start)
        minutes == start_time \div 60
        seconds == start_time % 60
    IN  Fmt02d(minutes) \o <<":">> \o Fmt02d(seconds)

\* the for loop dropping a segment whose text repeats the previous one
RECURSIVE format_rows_dedup(_)
format_rows_dedup(data) ==
    IF data = <<>>
    THEN <<>>
    ELSE LET n == Len(data)
             head == format_rows_dedup(SubSeq(data, 1, n - 1))
         IN  IF n > 1 /\ data[n].text = data[n - 1].text
             THEN head
             ELSE Append(head, [timestamp |-> timestamp_of(data[n]),
                                text |-> data[n].text])

\* the for loop building formatted_transcript
RECURSIVE format_rows(_)
format_rows(data) ==
    IF data = <<>>
    THEN <<>>
    ELSE LET n == Len(data)
         IN  Append(format_rows(SubSeq(data, 1, n - 1)),
                    [timestamp |-> timestamp_of(data[n]),
                     text |-> data[n].text])

\* sep.join(parts)
RECURSIVE Join(_, _)
Join(sep, parts) ==
    IF parts = <<>>
    THEN <<>>
    ELSE IF Len(parts) = 1
         THEN parts[1]
         ELSE parts[1] \o sep \o Join(sep, Tail(parts))

\* " ".join(item["text"] for item in transcript_data)
join_texts(data) ==
    Join(<<" ">>, [i \in 1..Len(data) |-> data[i].text])

\* "\n".join([f"{item['timestamp']}: {item['text']}" for item in formatted_transcript])
export_string(rows) ==
    Join(<<"\n">>,
         [i \in 1..Len(rows) |-> rows[i].timestamp \o <<":", " ">> \o rows[i].text])

----------------------------------------------------------------------------
(* Formatter inputs *)

MaxSegs == 3

\* start offsets in tenths of a second: 5.0, 59.9, 65.0 and 6001.0 seconds
SegStarts == {50, 599, 650, 60010}
SegTexts == {<<>>, <<"a">>, <<"b">>, <<"a", " ", "b">>}
Segments == [start : SegStarts, text : SegTexts]

RECURSIVE SeqsUpTo(_, _)
SeqsUpTo(S, n) ==
    IF n = 0
    THEN {<<>>}
    ELSE LET shorter == SeqsUpTo(S, n - 1)
         IN  shorter \cup { Append(q, x) : q \in {r \in shorter : Len(r) = n - 1}, x \in S }

FormatterInputs == SeqsUpTo(Segments, MaxSegs)

----------------------------------------------------------------------------
(* st.cache_data(ttl=3600) *)

CacheTTL == 3600

NoEntry == [present |-> FALSE]

\* an entry is served while its age is below the ttl
Fresh(entry, now) == entry.present /\ now - entry.stored_at < CacheTTL

\* what a function call produced: its return value (or that it raised), the
\* st.error / st.warning elements it emitted, the collaborators it called,
\* the transcripts list_transcripts returned and the index of the one taken
Result(ret, raised, errors, warnings, io, seen, picked) ==
    [ret |-> ret, raised |-> raised, errors |-> errors, warnings |-> warnings,
     io |-> io, seen |-> seen, picked |-> picked]

\* a memo that stores only results whose return value is not None / (None, None)
cache_data_skip_failures(cache, key, now, computed) ==
    IF Fresh(cache[key], now)
    THEN [result |-> Result(cache[key].ret, FALSE, cache[key].errors,
                            cache[key].warnings, {}, <<>>, 0),
          cache |-> cache, hit |-> TRUE]
    ELSE IF computed.raised \/ computed.errors # {} \/ computed.warnings # {}
         THEN [result |-> computed, cache |-> cache, hit |-> FALSE]
         ELSE [result |-> computed,
               cache |-> [cache EXCEPT ![key] =
                            [present |-> TRUE, stored_at |-> now,
                             ret |-> computed.ret, errors |-> computed.errors,
                             warnings |-> computed.warnings]],
               hit |-> FALSE]

\* a call of a decorated function: a fresh entry is returned and its elements
\* are replayed without running the body; otherwise the body runs and, unless
\* it raised, its return value and elements are stored under the argument
cache_data(cache, key, now, computed) ==
    IF Fresh(cache[key], now)
    THEN [result |-> Result(cache[key].ret, FALSE, cache[key].errors,
                            cache[key].warnings, {}, <<>>, 0),
          cache |-> cache, hit |-> TRUE]
    ELSE IF computed.raised
         THEN [result |-> computed, cache |-> cache, hit |-> FALSE]
         ELSE [result |-> computed,
               cache |-> [cache EXCEPT ![key] =
                            [present |-> TRUE, stored_at |-> now,
                             ret |-> computed.ret, errors |-> computed.errors,
                             warnings |-> computed.warnings]],
               hit |-> FALSE]

----------------------------------------------------------------------------
(* extract_video_metadata *)

\* result.get(key, default)
DictGet(d, key, default) == IF key \in DOMAIN d THEN d[key] ELSE default

\* outcomes of ydl.extract_info: it raises, or returns an info dict
InfoFull == [title |-> "T", uploader |-> "C", duration |-> 125,
             view_count |-> 1000, upload_date |-> "20240101"]
YdlOutcomes == {[raises |-> TRUE],
                [raises |-> FALSE, info |-> InfoFull]}

\* the body without its try/except: the exception of extract_info escapes
extract_video_metadata_unguarded(video_id, ydl) ==
    IF ydl.raises
    THEN Result(PyNone, TRUE, {}, {}, {"extract_info"}, <<>>, 0)
    ELSE Result(PyDict([title |-> DictGet(ydl.info, "title", "Unknown"),
                        channel |-> DictGet(ydl.info, "uploader", "Unknown"),
                        duration |-> DictGet(ydl.info, "duration", 0),
                        views |-> DictGet(ydl.info, "view_count", 0),
                        upload_date |-> DictGet(ydl.info, "upload_date", "Unknown")]),
                FALSE, {}, {}, {"extract_info"}, <<>>, 0)

extract_video_metadata(video_id, ydl) ==
    IF ydl.raises
    THEN Result(PyNone, FALSE, {}, {"Could not fetch video metadata"},
                {"extract_info"}, <<>>, 0)
    ELSE Result(PyDict([title |-> DictGet(ydl.info, "title", "Unknown"),
                        channel |-> DictGet(ydl.info, "uploader", "Unknown"),
                        duration |-> DictGet(ydl.info, "duration", 0),
                        views |-> DictGet(ydl.info, "view_count", 0),
                        upload_date |-> DictGet(ydl.info, "upload_date", "Unknown")]),
                FALSE, {}, {}, {"extract_info"}, <<>>, 0)

----------------------------------------------------------------------------
(* extract_transcript_details *)

\* transcripts a video can have
DataTwo == <<[start |-> 50, text |-> <<"a">>], [start |-> 650, text |-> <<"b">>]>>
DataOne == <<[start |-> 599, text |-> <<"a", " ", "b">>]>>
DataBlank == <<[start |-> 50, text |-> <<>>]>>

Transcript(lang, generated, data, fetch_raises) ==
    [language_code |-> lang, is_generated |-> generated, data |-> data,
     fetch_raises |-> fetch_raises]

EnManual == Transcript("en", FALSE, DataTwo, FALSE)
EnGenerated == Transcript("en", TRUE, DataOne, FALSE)
EsManual == Transcript("es", FALSE, DataOne, FALSE)
EnBlank == Transcript("en", FALSE, DataBlank, FALSE)
EnBroken == Transcript("en", FALSE, DataTwo, TRUE)

\* outcomes of YouTubeTranscriptApi.list_transcripts: it raises, or returns
\* the transcripts of the video in listing order
ListOutcomes == {[raises |-> TRUE],
                 [raises |-> FALSE, transcripts |-> <<EnManual>>],
                 [raises |-> FALSE, transcripts |-> <<EsManual>>],
                 [raises |-> FALSE, transcripts |-> <<EsManual, EnGenerated>>],
                 [raises |-> FALSE, transcripts |-> <<EnGenerated, EnManual>>],
                 [raises |-> FALSE, transcripts |-> <<EnBlank>>],
                 [raises |-> FALSE, transcripts |-> <<EnBroken>>]}

\* the least index of a set of indices, 0 when it is empty
FirstIndex(I) ==
    IF I = {} THEN 0 ELSE CHOOSE i \in I : \A k \in I : i <= k

\* transcript_list.find_transcript(['en']): manually created before generated;
\* 0 stands for NoTranscriptFound
find_transcript(ts, lang) ==
    LET manual == {i \in 1..Len(ts) : ts[i].language_code = lang /\ ~ts[i].is_generated}
        generated == {i \in 1..Len(ts) : ts[i].language_code = lang /\ ts[i].is_generated}
    IN  IF manual # {} THEN FirstIndex(manual) ELSE FirstIndex(generated)

\* transcript_list.find_generated_transcript(['en'])
find_generated_transcript(ts, lang) ==
    FirstIndex({i \in 1..Len(ts) : ts[i].language_code = lang /\ ts[i].is_generated})

\* the nested try/except of the selection; 0 when the last attempt raises
select_transcript(ts) ==
    IF find_transcript(ts, "en") # 0
    THEN find_transcript(ts, "en")
    ELSE IF find_generated_transcript(ts, "en") # 0
         THEN find_generated_transcript(ts, "en")
         ELSE find_generated_transcript(ts, "en")

TranscriptError == "Error extracting transcript"
VideoIdError == "Could not extract video ID from URL"

\* the body without the early return for a missing video id
extract_transcript_details_no_gate(youtube_video_url, listing) ==
    IF listing.raises
    THEN Result(PyTuple2(PyNone, PyNone), FALSE, {TranscriptError}, {},
                {"list_transcripts"}, <<>>, 0)
    ELSE LET ts == listing.transcripts
             picked == select_transcript(ts)
         IN  IF picked = 0
             THEN Result(PyTuple2(PyNone, PyNone), FALSE, {TranscriptError}, {},
                         {"list_transcripts"}, ts, 0)
             ELSE IF ts[picked].fetch_raises
             THEN Result(PyTuple2(PyNone, PyNone), FALSE, {TranscriptError}, {},
                         {"list_transcripts", "fetch"}, ts, picked)
             ELSE LET transcript_data_ == ts[picked].data
                  IN  Result(PyTuple2(PyStr(join_texts(transcript_data_)),
                                      PyList(format_rows(transcript_data_))),
                             FALSE, {}, {}, {"list_transcripts", "fetch"},
                             ts, picked)

extract_transcript_details(youtube_video_url, listing) ==
    LET video_id == cached_extract_video_id(youtube_video_url)
    IN  IF ~Truthy(video_id)
        THEN Result(PyNone, FALSE, {VideoIdError}, {}, {}, <<>>, 0)
        ELSE IF listing.raises
        THEN Result(PyTuple2(PyNone, PyNone), FALSE, {TranscriptError}, {},
                    {"list_transcripts"}, <<>>, 0)
        ELSE LET ts == listing.transcripts
                 picked == select_transcript(ts)
             IN  IF picked = 0
                 THEN Result(PyTuple2(PyNone, PyNone), FALSE, {TranscriptError}, {},
                             {"list_transcripts"}, ts, 0)
                 ELSE IF ts[picked].fetch_raises
                 THEN Result(PyTuple2(PyNone, PyNone), FALSE, {TranscriptError}, {},
                             {"list_transcripts", "fetch"}, ts, picked)
                 ELSE LET transcript_data_ == ts[picked].data
                      IN  Result(PyTuple2(PyStr(join_texts(transcript_data_)),
                                          PyList(format_rows(transcript_data_))),
                                 FALSE, {}, {}, {"list_transcripts", "fetch"},
                                 ts, picked)

----------------------------------------------------------------------------
(* generate_gemini_content *)

\* outcomes of model.generate_content(prompt) followed by response.text:
\* it raises, or yields text.  The prompt built from summary_type is only
\* an argument of that call.
GenOutcomes == {[raises |-> TRUE],
                [raises |-> FALSE, text |-> <<"S">>],
                [raises |-> FALSE, text |-> <<>>]}

SummaryError == "Error generating summary"

\* the except branch returning the error text as the summary
generate_gemini_content_error_text(transcript_text, gen) ==
    IF gen.raises
    THEN Result(PyStr(<<"E">>), FALSE, {SummaryError}, {}, {"generate_content"}, <<>>, 0)
    ELSE Result(PyStr(gen.text), FALSE, {}, {}, {"generate_content"}, <<>>, 0)

generate_gemini_content(transcript_text, gen) ==
    IF gen.raises
    THEN Result(PyNone, FALSE, {SummaryError}, {}, {"generate_content"}, <<>>, 0)
    ELSE Result(PyStr(gen.text), FALSE, {}, {}, {"generate_content"}, <<>>, 0)

----------------------------------------------------------------------------
(* save_summary and summaries_history.csv *)

HeaderRow == [kind |-> "header",
              columns |-> <<"timestamp", "video_id", "title", "summary">>]

DataRow(now, video_id, title, summary) ==
    [kind |-> "data", timestamp |-> now, video_id |-> video_id,
     title |-> title, summary |-> summary]

SaveError == "Error saving summary"

\* to_csv with header=True in the append branch as well
save_summary_header_always(summary, video_id, metadata, now, exists, rows, io_ok) ==
    IF metadata.py # "dict" \/ ~io_ok
    THEN [ret |-> FALSE, errors |-> {SaveError}, exists |-> exists, rows |-> rows]
    ELSE LET row == DataRow(now, video_id.v, DictGet(metadata.v, "title", "Unknown"),
                            summary.v)
         IN  [ret |-> TRUE, errors |-> {}, exists |-> TRUE,
              rows |-> IF exists THEN rows \o <<HeaderRow, row>> ELSE <<HeaderRow, row>>]

\* metadata.get raises on a non-dict and to_csv raises when io_ok is false;
\* either way the file is left as it was and False is returned
save_summary(summary, video_id, metadata, now, exists, rows, io_ok) ==
    IF metadata.py # "dict" \/ ~io_ok
    THEN [ret |-> FALSE, errors |-> {SaveError}, exists |-> exists, rows |-> rows]
    ELSE LET row == DataRow(now, video_id.v, DictGet(metadata.v, "title", "Unknown"),
                            summary.v)
         IN  IF exists
             THEN [ret |-> TRUE, errors |-> {}, exists |-> TRUE,
                   rows |-> Append(rows, row)]
             ELSE [ret |-> TRUE, errors |-> {}, exists |-> TRUE,
                   rows |-> <<HeaderRow, row>>]

----------------------------------------------------------------------------
(* The script: one run from top to bottom per user interaction *)

EmptyPage ==
    [image |-> FALSE, details |-> PyNone, errors |-> {}, warnings |-> {},
     table |-> PyNone, summary |-> PyNone, saved |-> FALSE,
     download_summary |-> PyNone, download_transcript |-> PyNone,
     exception |-> "none"]

IdleScript ==
    [button |-> FALSE, video_id |-> PyUndefined, metadata |-> PyUndefined,
     io |-> {}, td_ret |-> PyUndefined, td_hit |-> FALSE, seen |-> <<>>,
     picked |-> 0, gen_ret |-> PyUndefined, save_ret |-> "not called"]

NoResult == Result(PyUndefined, FALSE, {}, {}, {}, <<>>, 0)

\* the second download column: offered when formatted_transcript is non-empty
transcript_download(formatted) ==
    IF Truthy(formatted)
    THEN PyStr(export_string(formatted.v))
    ELSE PyNone

\* if youtube_link: video_id = extract_video_id(youtube_link)
script_video_id(link) ==
    IF Len(link) > 0 THEN cached_extract_video_id(link) ELSE PyUndefined

\* if video_id: ... metadata = extract_video_metadata(video_id)
script_metadata(link, video_id, now, mcache, ydl) ==
    IF Len(link) > 0 /\ Truthy(video_id)
    THEN cache_data(mcache, video_id.v, now, extract_video_metadata(video_id, ydl))
    ELSE [result |-> NoResult, cache |-> mcache, hit |-> FALSE]

\* transcript_text, formatted_transcript = extract_transcript_details(youtube_link)
script_transcript(link, button, m, now, tcache, listing) ==
    IF button /\ ~m.result.raised
    THEN cache_data(tcache, link, now, extract_transcript_details(link, listing))
    ELSE [result |-> NoResult, cache |-> tcache, hit |-> FALSE]

\* the unpacking succeeds on a pair only
unpack_ok(button, m, td) ==
    /\ button
    /\ ~m.result.raised
    /\ ~td.result.raised
    /\ td.result.ret.py = "tuple"

\* if transcript_text: ... summary = generate_gemini_content(...)
script_summary(button, m, td, gen) ==
    IF unpack_ok(button, m, td) /\ Truthy(td.result.ret.fst)
    THEN generate_gemini_content(td.result.ret.fst, gen)
    ELSE NoResult

\* if summary:
got_summary(g) == g.ret.py = "str" /\ Truthy(g.ret)

\* the names video_id and metadata are unbound when the top block was skipped
name_error(save, video_id, m, g) ==
    got_summary(g) /\
        ((save /\ m.result.ret.py = "undefined") \/ video_id.py = "undefined")

\* if save_to_file and metadata: save_summary(summary, video_id, metadata)
script_save(save, video_id, m, g, now, exists, rows, io_ok) ==
    IF got_summary(g) /\ ~name_error(save, video_id, m, g) /\ save
          /\ Truthy(m.result.ret)
    THEN [called |-> TRUE,
          out |-> save_summary(g.ret, video_id, m.result.ret, now, exists, rows, io_ok)]
    ELSE [called |-> FALSE,
          out |-> [ret |-> FALSE, errors |-> {}, exists |-> exists, rows |-> rows]]

\* what the run leaves on the page
script_page(link, save, button, video_id, m, td, g, sv) ==
    LET with_id == Len(link) > 0 /\ Truthy(video_id)
        unpacked == unpack_ok(button, m, td)
        got_text == unpacked /\ Truthy(td.result.ret.fst)
        offer == got_summary(g) /\ ~name_error(save, video_id, m, g)
    IN  [image |-> with_id,
         details |-> IF with_id /\ ~m.result.raised /\ Truthy(m.result.ret)
                     THEN m.result.ret ELSE PyNone,
         errors |-> m.result.errors \cup td.result.errors \cup g.errors
                        \cup sv.out.errors,
         warnings |-> m.result.warnings \cup td.result.warnings,
         table |-> IF got_text THEN td.result.ret.snd ELSE PyNone,
         summary |-> IF got_summary(g) THEN g.ret ELSE PyNone,
         saved |-> sv.called /\ sv.out.ret,
         download_summary |-> IF offer THEN g.ret ELSE PyNone,
         download_transcript |-> IF offer
                                 THEN transcript_download(td.result.ret.snd)
                                 ELSE PyNone,
         exception |-> IF m.result.raised \/ (button /\ td.result.raised)
                       THEN "Exception"
                       ELSE IF button /\ ~unpacked THEN "TypeError"
                       ELSE IF name_error(save, video_id, m, g) THEN "NameError"
                       ELSE "none"]

\* the globals, calls and returns of the run
script_trace(button, video_id, m, td, g, sv) ==
    [button |-> button, video_id |-> video_id, metadata |-> m.result.ret,
     io |-> m.result.io \cup td.result.io \cup g.io,
     td_ret |-> td.result.ret, td_hit |-> td.hit,
     seen |-> td.result.seen, picked |-> td.result.picked,
     gen_ret |-> g.ret,
     save_ret |-> IF sv.called
                  THEN (IF sv.out.ret THEN "True" ELSE "False")
                  ELSE "not called"]

----------------------------------------------------------------------------
(* The page in use: the user types a link, ticks the checkbox, presses the *)
(* button; every interaction reruns the script.  Time passes in between.   *)

MaxRuns == 3
MaxTicks == 2

\* time passes in steps of half the ttl
TickStep == CacheTTL \div 2

\* a log left by an earlier session of the same writer
EarlierLog == <<HeaderRow, DataRow(0, IdB, "T", <<"S">>)>>

IdleFn ==
    /\ fn_pc = "idle"
    /\ fn_url = <<>>
    /\ fn_video_id = PyUndefined
    /\ transcript_data = <<>>
    /\ full_transcript = PyUndefined
    /\ formatted_transcript = PyUndefined
    /\ export_text = PyUndefined

IdleApp ==
    /\ youtube_link = <<>>
    /\ save_to_file = FALSE
    /\ clock = 0
    /\ td_cache = [u \in AppUrls |-> NoEntry]
    /\ meta_cache = [k \in MetaKeys |-> NoEntry]
    /\ page = EmptyPage
    /\ script = IdleScript
    /\ runs = 0

\* the first script run has rendered the empty form
Init ==
    /\ IdleFn
    /\ IdleApp
    /\ \/ csv_exists = FALSE /\ csv_rows = <<>>
       \/ csv_exists = TRUE /\ csv_rows = EarlierLog

\* one run of the script, top to bottom
Rerun(link, save, button, ydl, listing, gen, io_ok) ==
    /\ runs < MaxRuns
    /\ runs' = runs + 1
    /\ youtube_link' = link
    /\ save_to_file' = save
    /\ \E video_id \in {script_video_id(link)} :
       \E m \in {script_metadata(link, video_id, clock, meta_cache, ydl)} :
       \E td \in {script_transcript(link, button, m, clock, td_cache, listing)} :
       \E g \in {script_summary(button, m, td, gen)} :
       \E sv \in {script_save(save, video_id, m, g, clock, csv_exists, csv_rows, io_ok)} :
          /\ page' = script_page(link, save, button, video_id, m, td, g, sv)
          /\ script' = script_trace(button, video_id, m, td, g, sv)
          /\ td_cache' = td.cache
          /\ meta_cache' = m.cache
          /\ csv_exists' = sv.out.exists
          /\ csv_rows' = sv.out.rows
    /\ UNCHANGED <<clock, fn_vars>>

Unused == [raises |-> TRUE]

\* the user edits the text input
SetLink ==
    \E u \in AppUrls \ {youtube_link}, ydl \in YdlOutcomes :
        Rerun(u, save_to_file, FALSE, ydl, Unused, Unused, TRUE)

\* the user flips "Save Summary to File"
ToggleSave ==
    \E ydl \in YdlOutcomes :
        Rerun(youtube_link, ~save_to_file, FALSE, ydl, Unused, Unused, TRUE)

\* the user presses "Generate Summary"
\* to_csv is reached only with the box ticked
PressGenerate ==
    \E ydl \in YdlOutcomes, listing \in ListOutcomes, gen \in GenOutcomes,
       io_ok \in (IF save_to_file THEN BOOLEAN ELSE {TRUE}) :
        Rerun(youtube_link, save_to_file, TRUE, ydl, listing, gen, io_ok)

Tick ==
    /\ clock + TickStep <= MaxTicks * TickStep
    /\ clock' = clock + TickStep
    /\ UNCHANGED <<fn_vars, youtube_link, save_to_file, td_cache, meta_cache,
                   csv_exists, csv_rows, page, script, runs>>

Next == SetLink \/ ToggleSave \/ PressGenerate \/ Tick

Spec == Init /\ [][Next]_vars

----------------------------------------------------------------------------
(* extract_video_id applied to URL strings *)

InitId ==
    /\ IdleApp
    /\ csv_exists = FALSE
    /\ csv_rows = <<>>
    /\ fn_pc = "input"
    /\ fn_url \in ExtractorInputs
    /\ fn_video_id = PyUndefined
    /\ transcript_data = <<>>
    /\ full_transcript = PyUndefined
    /\ formatted_transcript = PyUndefined
    /\ export_text = PyUndefined

CallExtractVideoId ==
    /\ fn_pc = "input"
    /\ fn_pc' = "extract_video_id"
    /\ fn_video_id' = extract_video_id(fn_url)
    /\ UNCHANGED <<fn_url, transcript_data, full_transcript, formatted_transcript,
                   export_text, app_vars>>

NextId == CallExtractVideoId

SpecId == InitId /\ [][NextId]_vars

----------------------------------------------------------------------------
(* The transcript formatter applied to segment sequences *)

InitFmt ==
    /\ IdleApp
    /\ csv_exists = FALSE
    /\ csv_rows = <<>>
    /\ fn_pc = "input"
    /\ fn_url = <<>>
    /\ fn_video_id = PyUndefined
    /\ transcript_data \in FormatterInputs
    /\ full_transcript = PyUndefined
    /\ formatted_transcript = PyUndefined
    /\ export_text = PyUndefined

\* the loop and the join of extract_transcript_details
CallFormat ==
    /\ fn_pc = "input"
    /\ fn_pc' = "formatted"
    /\ formatted_transcript' = PyList(format_rows(transcript_data))
    /\ full_transcript' = PyStr(join_texts(transcript_data))
    /\ UNCHANGED <<fn_url, fn_video_id, transcript_data, export_text, app_vars>>

\* the export expression of the transcript download
CallExport ==
    /\ fn_pc = "formatted"
    /\ fn_pc' = "exported"
    /\ export_text' = PyStr(export_string(formatted_transcript.v))
    /\ UNCHANGED <<fn_url, fn_video_id, transcript_data, full_transcript,
                   formatted_transcript, app_vars>>

NextFmt == CallFormat \/ CallExport

SpecFmt == InitFmt /\ [][NextFmt]_vars

----------------------------------------------------------------------------
(* Properties of the identifier extractor *)

NoneNone == PyTuple2(PyNone, PyNone)

NothingOffered ==
    /\ page.summary = PyNone
    /\ page.download_summary = PyNone
    /\ page.download_transcript = PyNone

\* C1: when the extractor yields no identifier for the link (the empty
\* string included), a press of Generate ends without an exception:
\* extract_transcript_details returns a pair the caller can unpack, the
\* downstream steps are skipped and only a message is shown.
C1_NoIdEndsQuietly ==
    (script.button /\ extract_video_id(youtube_link) = PyNone)
        => /\ script.td_ret.py = "tuple"
           /\ page.exception = "none"
           /\ NothingOffered
           /\ page.errors # {}

\* C3: a link without any run of 11 identifier characters yields no
\* identifier, and the script run with that link calls no collaborator:
\* no extract_info, no list_transcripts / fetch, no generate_content.
C3_NoIdNoFetch ==
    ~HasIdShapedRun(youtube_link)
        => /\ extract_video_id(youtube_link) = PyNone
           /\ script.io = {}
           /\ script.video_id.py # "str"

C3_Witness ==
    /\ script.button
    /\ Len(youtube_link) > 0
    /\ ~HasIdShapedRun(youtube_link)
    /\ VideoIdError \in page.errors

\* C4: for every URL scheme + host + path + watch?v=<id>&extra=1 the
\* extractor returns exactly <id>, whatever stands before watch?v=.
C4_WatchUrlYieldsItsId ==
    fn_pc = "extract_video_id"
        => \A sc \in Schemes, h \in WatchHosts, p \in WatchPaths,
              id \in VideoIds, sf \in WatchSuffixes :
                fn_url = WatchUrl(sc, h, p, id, sf) => fn_video_id = PyStr(id)

\* position of the first "?" of s, 0 when there is none
FirstQuestionMark(s) ==
    IF \E i \in 1..Len(s) : s[i] = "?"
    THEN CHOOSE i \in 1..Len(s) : s[i] = "?" /\ \A k \in 1..(i - 1) : s[k] # "?"
    ELSE 0

\* position of the last "/" of s before position q, 0 when there is none
LastSlashBefore(s, q) ==
    IF \E i \in 1..(q - 1) : s[i] = "/"
    THEN CHOOSE i \in 1..(q - 1) : s[i] = "/" /\ \A k \in (i + 1)..(q - 1) : s[k] # "/"
    ELSE 0

\* C5: for a short link .../<id>?<query> the extractor returns the path
\* component that follows the short-link host, cut at the "?": nothing of
\* the query, however many parameters it has, is part of the result.
C5_ShortLinkYieldsPathComponent ==
    (fn_pc = "extract_video_id" /\ fn_url \in ShortUrls)
        => LET q == FirstQuestionMark(fn_url)
               sl == LastSlashBefore(fn_url, q)
           IN  /\ q # 0
               /\ sl # 0
               /\ fn_video_id = PyStr(SubSeq(fn_url, sl + 1, q - 1))
               /\ \A i \in 1..Len(fn_video_id.v) : fn_video_id.v[i] \notin {"?", "&", "="}

C5_Witness ==
    /\ fn_pc = "extract_video_id"
    /\ fn_url = ShortUrl(SchemeHttps, HostShort, IdA, QueryV)
    /\ fn_video_id = PyStr(IdA)

----------------------------------------------------------------------------
(* Properties of the transcript formatter *)

DigitValue(c) == CHOOSE d \in 0..9 : DigitSeq[d + 1] = c

\* the number a sequence of decimal digits denotes
RECURSIVE DecValue(_)
DecValue(ds) ==
    IF ds = <<>>
    THEN 0
    ELSE 10 * DecValue(SubSeq(ds, 1, Len(ds) - 1)) + DigitValue(ds[Len(ds)])

\* where part i starts in the join of parts with a separator of length n
RECURSIVE OffsetOf(_, _, _)
OffsetOf(parts, i, n) ==
    IF i = 1
    THEN 0
    ELSE OffsetOf(parts, i - 1, n) + Len(parts[i - 1]) + n

\* whole is the parts in order, one sep between neighbours, nothing else
IsJoinOf(whole, parts, sep) ==
    IF parts = <<>>
    THEN whole = <<>>
    ELSE /\ Len(whole) = OffsetOf(parts, Len(parts), 1) + Len(parts[Len(parts)])
         /\ \A i \in 1..Len(parts) :
               LET off == OffsetOf(parts, i, 1)
               IN  /\ SubSeq(whole, off + 1, off + Len(parts[i])) = parts[i]
                   /\ i > 1 => whole[off] = sep

\* ts reads MM:SS for the whole seconds of start (held in tenths)
IsTimestampOf(ts, start) ==
    LET near == start \div 10
        whole == CHOOSE n \in (near - 1)..(near + 1) :
                    n * 10 <= start /\ start < (n + 1) * 10
        n == Len(ts)
    IN  /\ n >= 5
        /\ ts[n - 2] = ":"
        /\ \A i \in (1..n) \ {n - 2} : ts[i] \in Digits
        /\ DecValue(SubSeq(ts, n - 1, n)) = whole % 60
        /\ DecValue(SubSeq(ts, 1, n - 3)) = whole \div 60
        /\ (n > 5 => ts[1] # "0")

\* C6: the formatter yields one row per segment, in order, each with the
\* MM:SS timestamp of the truncated start and the text unchanged; the
\* flattened text is the texts joined by single spaces; the export string
\* is the lines "timestamp: text" joined by newlines; nothing is dropped,
\* reordered or deduplicated, and no segments give three empty outputs.
C6_FormatterFaithful ==
    /\ fn_pc \in {"formatted", "exported"}
         => /\ formatted_transcript.py = "list"
            /\ Len(formatted_transcript.v) = Len(transcript_data)
            /\ \A i \in 1..Len(transcript_data) :
                  /\ formatted_transcript.v[i].text = transcript_data[i].text
                  /\ IsTimestampOf(formatted_transcript.v[i].timestamp,
                                   transcript_data[i].start)
            /\ full_transcript.py = "str"
            /\ IsJoinOf(full_transcript.v,
                        [i \in 1..Len(transcript_data) |-> transcript_data[i].text],
                        " ")
            /\ transcript_data = <<>>
                 => full_transcript.v = <<>> /\ formatted_transcript.v = <<>>
            /\ transcript_data = DataTwo
                 => /\ formatted_transcript.v =
                        <<[timestamp |-> <<"0", "0", ":", "0", "5">>, text |-> <<"a">>],
                          [timestamp |-> <<"0", "1", ":", "0", "5">>, text |-> <<"b">>]>>
                    /\ full_transcript.v = <<"a", " ", "b">>
    /\ fn_pc = "exported"
         => /\ export_text.py = "str"
            /\ IsJoinOf(export_text.v,
                        [i \in 1..Len(transcript_data) |->
                            formatted_transcript.v[i].timestamp \o <<":", " ">>
                                \o transcript_data[i].text],
                        "\n")
            /\ transcript_data = <<>> => export_text.v = <<>>
            /\ transcript_data = DataTwo
                 => export_text.v = <<"0", "0", ":", "0", "5", ":", " ", "a", "\n",
                                      "0", "1", ":", "0", "5", ":", " ", "b">>

C6_Witness ==
    /\ fn_pc = "exported"
    /\ Len(transcript_data) = 3
    /\ transcript_data[1].text = transcript_data[2].text
    /\ transcript_data[1].start > transcript_data[3].start
    /\ Len(formatted_transcript.v) = 3

----------------------------------------------------------------------------
(* Properties of the script run *)

NonEmptyStr(x) == x.py = "str" /\ Len(x.v) > 0

\* C2: a failed metadata fetch does not stop a Generate run: with an
\* identifier extracted and no metadata, the transcript step still runs;
\* when it returns text the Summarizer is still called; and when that
\* returns text the summary is shown and both downloads are offered.
C2_MetadataFailureNonFatal ==
    (script.button /\ script.video_id.py = "str" /\ script.metadata.py # "dict")
        => /\ script.td_ret.py = "tuple"
           /\ NonEmptyStr(script.td_ret.fst)
                => /\ "generate_content" \in script.io
                   /\ script.gen_ret.py \in {"None", "str"}
           /\ (NonEmptyStr(script.td_ret.fst) /\ NonEmptyStr(script.gen_ret))
                => /\ page.exception = "none"
                   /\ page.summary = script.gen_ret
                   /\ page.download_summary = script.gen_ret
                   /\ page.download_transcript.py = "str"
                   /\ Len(page.download_transcript.v) > 0

C2_Witness ==
    /\ script.button
    /\ script.metadata = PyNone
    /\ "Could not fetch video metadata" \in page.warnings
    /\ NonEmptyStr(page.summary)
    /\ NonEmptyStr(page.download_summary)
    /\ NonEmptyStr(page.download_transcript)

\* C7: in a Generate run the summary and the downloads are offered only
\* if the transcript step returned text and the Summarizer was then called
\* and returned text; a failed transcript fetch stops the run before the
\* Summarizer, a failed Summarizer offers nothing, and both show an error.
C7_SummaryOnlyAfterBothSucceed ==
    script.button
        => /\ ~NothingOffered
                => /\ script.td_ret.py = "tuple"
                   /\ NonEmptyStr(script.td_ret.fst)
                   /\ "generate_content" \in script.io
                   /\ NonEmptyStr(script.gen_ret)
           /\ script.td_ret = NoneNone
                => /\ "generate_content" \notin script.io
                   /\ NothingOffered
                   /\ TranscriptError \in page.errors
           /\ ("generate_content" \in script.io /\ ~NonEmptyStr(script.gen_ret))
                => NothingOffered
           /\ SummaryError \in page.errors
                => /\ NothingOffered
                   /\ script.gen_ret = PyNone
           /\ script.gen_ret = PyNone => SummaryError \in page.errors

C7_Witness ==
    /\ script.button
    /\ script.td_ret.py = "tuple"
    /\ NonEmptyStr(script.td_ret.fst)
    /\ "generate_content" \in script.io
    /\ script.gen_ret = PyNone
    /\ SummaryError \in page.errors
    /\ NothingOffered

IsPrefix(a, b) == Len(a) <= Len(b) /\ SubSeq(b, 1, Len(a)) = a

LogShape ==
    /\ csv_exists <=> csv_rows # <<>>
    /\ csv_rows # <<>>
         => /\ csv_rows[1] = HeaderRow
            /\ \A i \in 2..Len(csv_rows) : csv_rows[i].kind = "data"
    /\ script.save_ret = "False"
         => /\ SaveError \in page.errors
            /\ NonEmptyStr(page.summary)
            /\ page.download_summary = page.summary
            /\ NonEmptyStr(page.download_transcript)

LogStep ==
    /\ IsPrefix(csv_rows, csv_rows')
    /\ (runs' # runs /\ script'.save_ret = "True")
         => csv_rows' =
              (IF csv_rows = <<>> THEN <<HeaderRow>> ELSE csv_rows)
                \o <<DataRow(clock, script'.video_id.v, script'.metadata.v.title,
                             script'.gen_ret.v)>>
    /\ ~(runs' # runs /\ script'.save_ret = "True") => csv_rows' = csv_rows

C9_FallsBackToFirstAvailable ==
    (script.button /\ "list_transcripts" \in script.io /\ script.seen # <<>>)
        => /\ script.picked # 0
           /\ (\A i \in 1..Len(script.seen) : script.seen[i].language_code # "en")
                => script.picked = 1
           /\ ~script.seen[script.picked].fetch_raises
                => script.td_ret.fst.py = "str"

\* C10: the memo of extract_transcript_details is keyed by the URL string
\* and keeps failures: while an entry (None, None) for the link is younger
\* than 3600 seconds a Generate returns it without calling the Transcript
\* Fetcher; the Fetcher is called only when the link has no entry or an
\* expired one; a (None, None) just returned is stored; entries of other
\* links are left alone.
C10_FailureMemoized ==
    [][ (runs' # runs /\ script'.button)
          => LET e == td_cache[youtube_link']
                 fresh == e.present /\ clock - e.stored_at < CacheTTL
             IN  /\ (fresh /\ e.ret = NoneNone)
                      => /\ script'.td_ret = NoneNone
                         /\ "list_transcripts" \notin script'.io
                         /\ td_cache' = td_cache
                 /\ "list_transcripts" \in script'.io => ~fresh
                 /\ script'.td_ret = NoneNone
                      => /\ td_cache'[youtube_link'].present
                         /\ td_cache'[youtube_link'].ret = NoneNone
                         /\ clock' - td_cache'[youtube_link'].stored_at < CacheTTL
                 /\ \A u \in AppUrls \ {youtube_link'} : td_cache'[u] = td_cache[u]
      ]_vars

C10_Witness ==
    /\ script.button
    /\ script.td_ret = NoneNone
    /\ "list_transcripts" \notin script.io
    /\ clock > 0
    /\ td_cache[youtube_link].present
    /\ td_cache[youtube_link].stored_at < clock

====
